---- MODULE Spec2Model ----
(***************************************************************************)
(* A state-machine model of the WhatsApp multi-account manager             *)
(* (src/utils/whatsappManager.js), its store helpers (config/database.js,  *)
(* here src/unnamed/part_001) and the HTTP routes that drive it            *)
(* (src/index.js).                                                         *)
(*                                                                         *)
(* JavaScript runs every synchronous stretch of code atomically, so one    *)
(* action is one stretch between two `await`s: the call of an operation up *)
(* to its first await, and then each continuation.  Every awaited call of  *)
(* a collaborator (store, transport, qrcode, axios) may resolve or reject. *)
(* Where the continuation of a store call writes one of the manager's maps, *)
(* the call is two steps, the store applying the operation and then the    *)
(* continuation, because other handlers run in between; where it only      *)
(* issues the next call, the two are one step.                             *)
(***************************************************************************)
EXTENDS Integers, Sequences, FiniteSets, TLC

----------------------------------------------------------------------------
(* Bounds of the model.                                                    *)
NumAccounts == 2
MaxCreates == 1
MaxEvents == 3
MaxMessages == 2
MaxWebhooks == 2
MaxSends == 2
MaxSendEvents == 1
MaxDeletes == 1
MaxToggles == 1
MaxPageCloses == 1
MaxLen == 3
MaxFormatCalls == 1
MaxDeleteCalls == 2
MaxRouteCalls == 3
MaxReplies == 1

Acc == 1..NumAccounts
WebhookIds == 1..MaxWebhooks

(* Values the collaborators hand in. *)
Codes == {"ABC"}
Phones == {"1555000111"}
Reasons == {"LOGOUT"}
InitErrors == {"ECONNREFUSED"}
Bodies == {"hi"}
Numbers == {<<"9", "8", "-", "7">>}
\* The `number` strings handed to formatPhoneNumber: a digit, '+', and a
\* character that is neither, in every arrangement up to MaxLen characters.
PhoneChars == {"9", "+", "-"}
PhoneInputs == UNION {[1..n -> PhoneChars] : n \in 0..MaxLen}
Secrets == {"s3cret"}

None == "none"
Absent == "absent"

----------------------------------------------------------------------------
(* The state.                                                              *)
VARIABLES
  clients,            \* this.clients: the account ids that have a client
  qrCodes,            \* this.qrCodes
  accountStatus,      \* this.accountStatus
  transport,          \* per account id, the state of its Client object
  pupPage,            \* client.pupPage of that object
  whatsapp_accounts,  \* table whatsapp_accounts
  webhooks,           \* table webhooks
  message_logs,       \* table message_logs (in insertion order)
  handlers,           \* running qr/ready/auth_failure/disconnected handlers
  creates,            \* running and finished createAccount calls
  deletes,            \* running and finished deleteAccount calls
  startup,            \* initializeExistingAccounts
  ingests,            \* running and finished 'message' handlers
  sends,              \* running and finished sendMessage calls
  requests,           \* the requests the routes answered with 400, and those of
                      \* /api/webhook-reply
  lifecycle,          \* observer: how far an account is in the create/qr/ready scenario
  nextId,             \* observer: number of the next task (emission order)
  budget              \* observer: what the environment may still do (bounds)

managerVars == <<clients, qrCodes, accountStatus>>
clientVars == <<transport, pupPage>>
storeVars == <<whatsapp_accounts, webhooks, message_logs>>
taskVars == <<handlers, creates, deletes, startup, ingests, sends>>
vars == <<clients, qrCodes, accountStatus, transport, pupPage,
          whatsapp_accounts, webhooks, message_logs,
          handlers, creates, deletes, startup, ingests, sends, requests,
          lifecycle, nextId, budget>>

----------------------------------------------------------------------------
(* Values.                                                                 *)

\* README "Key Fields": the account statuses.
Statuses == {"initializing", "qr_ready", "ready", "auth_failed", "disconnected"}

\* qrcode.toDataURL(qr): the data URL that renders the code.
toDataURL(qr) == <<"data:image/png;base64", qr>>
NoQr == <<>>

NoRow == [status |-> Absent, phone_number |-> None, qr_code |-> NoQr,
          error_message |-> None]

HasRow(a) == whatsapp_accounts[a].status # Absent

\* Lines 22-29 of whatsappManager.js: the row of a new account.
accountData(st) == [status |-> st, phone_number |-> None, qr_code |-> NoQr,
                    error_message |-> None]

\* db.createAccount(accountData): insert one row.
dbCreateAccount(a, row) == [whatsapp_accounts EXCEPT ![a] = row]

\* A variant of dbUpdateAccount without the `.eq('id', id)` filter: every row
\* takes the updates.  C26 has to reject it.
dbUpdateAccount_everyRow(a, updates) ==
  [b \in Acc |->
     IF HasRow(b)
     THEN [f \in DOMAIN whatsapp_accounts[b] |->
             IF f \in DOMAIN updates THEN updates[f] ELSE whatsapp_accounts[b][f]]
     ELSE whatsapp_accounts[b]]

\* db.updateAccount(id, updates): update the rows with that id (none: no error).
\* updates is a record whose fields replace the row's.
dbUpdateAccount(a, updates) ==
  IF HasRow(a)
  THEN [whatsapp_accounts EXCEPT ![a] =
          [f \in DOMAIN @ |-> IF f \in DOMAIN updates THEN updates[f] ELSE @[f]]]
  ELSE whatsapp_accounts

\* db.deleteAccount(id): delete the rows with that id (none: no error).
dbDeleteAccount(a) == [whatsapp_accounts EXCEPT ![a] = NoRow]

\* db.getAccounts(): the rows, in the store's order.
RECURSIVE RowsFrom(_)
RowsFrom(a) ==
  IF a > NumAccounts THEN <<>>
  ELSE (IF HasRow(a) THEN <<[id |-> a, status |-> whatsapp_accounts[a].status]>>
        ELSE <<>>) \o RowsFrom(a + 1)
dbGetAccounts == RowsFrom(1)

Spend(what) == [budget EXCEPT ![what] = @ - 1]

----------------------------------------------------------------------------
(* The observer of the lifecycle scenario of spec section 8: create, then  *)
(* qr(code), then ready, each handled to its end before the next event,    *)
(* every collaborator call succeeding and no deleteAccount of the account. *)
(* "off": the account left the scenario.                                   *)
Off == [ph |-> "off", code |-> None, phone |-> None]
Phase(p, c, n) == [ph |-> p, code |-> c, phone |-> n]
Leave(a) == [lifecycle EXCEPT ![a] = Off]

----------------------------------------------------------------------------
(* createAccount (whatsappManager.js 16-69).                               *)

\* uuidv4(): an id no account has.
FreshId(a) ==
  /\ ~HasRow(a)
  /\ a \notin clients
  /\ transport[a] = None
  /\ \A c \in creates : c.acc # a

\* Line 18-31: the call up to `await db.createAccount`.
createAccount_call(a) ==
  /\ budget.creates > 0
  /\ FreshId(a)
  /\ budget' = Spend("creates")
  /\ creates' = creates \cup {[acc |-> a, pc |-> "db", result |-> None]}
  /\ UNCHANGED <<requests, managerVars, clientVars, storeVars, handlers, deletes, startup,
                 ingests, sends, lifecycle, nextId>>

\* The store inserts the row.
createAccount_insert(c) ==
  /\ c.pc = "db"
  /\ whatsapp_accounts' = dbCreateAccount(c.acc, accountData("initializing"))
  /\ creates' = (creates \ {c}) \cup {[c EXCEPT !.pc = "inserted"]}
  /\ UNCHANGED <<requests, managerVars, clientVars, webhooks, message_logs, handlers,
                 deletes, startup, ingests, sends, lifecycle, nextId, budget>>

\* The store rejects: line 65-68, the error goes to the caller.
createAccount_insertFails(c) ==
  /\ c.pc = "db"
  /\ creates' = (creates \ {c}) \cup {[c EXCEPT !.pc = "done", !.result = "StoreError"]}
  /\ UNCHANGED <<requests, managerVars, clientVars, storeVars, handlers, deletes, startup,
                 ingests, sends, lifecycle, nextId, budget>>

\* Line 58-59: where the client is registered and its status cached.
registerStatus == "initializing"

\* Lines 34-62: new Client, setupEventHandlers, register, client.initialize().
createAccount_register(c) ==
  /\ c.pc = "inserted"
  /\ clients' = clients \cup {c.acc}
  /\ accountStatus' = [accountStatus EXCEPT ![c.acc] = registerStatus]
  /\ transport' = [transport EXCEPT ![c.acc] = "initializing"]
  /\ pupPage' = [pupPage EXCEPT ![c.acc] = "open"]
  /\ creates' = (creates \ {c}) \cup {[c EXCEPT !.pc = "initialize"]}
  /\ lifecycle' = [lifecycle EXCEPT ![c.acc] =
                     IF \E d \in deletes : d.acc = c.acc THEN Off
                     ELSE Phase("created", None, None)]
  /\ UNCHANGED <<requests, qrCodes, storeVars, handlers, deletes, startup, ingests, sends,
                 nextId, budget>>

\* Line 62-64: client.initialize() resolves, the account is returned.
createAccount_initialized(c) ==
  /\ c.pc = "initialize"
  /\ transport[c.acc] = "initializing"
  /\ transport' = [transport EXCEPT ![c.acc] = "up"]
  /\ creates' = (creates \ {c}) \cup {[c EXCEPT !.pc = "done", !.result = "ok"]}
  /\ UNCHANGED <<requests, managerVars, pupPage, storeVars, handlers, deletes, startup,
                 ingests, sends, lifecycle, nextId, budget>>

\* Line 62, 65-68: client.initialize() rejects; logged and thrown to the caller.
createAccount_initializeFails(c) ==
  /\ c.pc = "initialize"
  /\ transport[c.acc] \in {"initializing", "destroyed"}
  /\ transport' = [transport EXCEPT ![c.acc] = IF @ = "destroyed" THEN @ ELSE "failed"]
  /\ pupPage' = [pupPage EXCEPT ![c.acc] = "closed"]
  /\ creates' = (creates \ {c}) \cup {[c EXCEPT !.pc = "done", !.result = "TransportError"]}
  /\ UNCHANGED <<requests, managerVars, storeVars, handlers, deletes, startup,
                 ingests, sends, lifecycle, nextId, budget>>

createAccount ==
  \/ \E a \in Acc : createAccount_call(a)
  \/ \E c \in creates :
       \/ createAccount_insert(c)
       \/ createAccount_insertFails(c)
       \/ createAccount_register(c)
       \/ createAccount_initialized(c)
       \/ createAccount_initializeFails(c)

----------------------------------------------------------------------------
(* setupEventHandlers (whatsappManager.js 72-152): the lifecycle events.   *)

\* The client object of an account can emit events once initialize() was
\* called and until it failed or was destroyed.
Emitting(a) == transport[a] \in {"initializing", "up"}

\* A variant of handlerStatus that caches the event's name for auth_failure:
\* a value outside the documented statuses, which C4 has to reject.
handlerStatus_typo(kind) ==
  CASE kind = "qr" -> "qr_ready"
    [] kind = "ready" -> "ready"
    [] kind = "auth_failure" -> "auth_failure"
    [] kind = "disconnected" -> "disconnected"

\* Lines 81, 97, 118, 133 / 86, 102, 123, 138: the status an event stands for.
handlerStatus(kind) ==
  CASE kind = "qr" -> "qr_ready"
    [] kind = "ready" -> "ready"
    [] kind = "auth_failure" -> "auth_failed"
    [] kind = "disconnected" -> "disconnected"

\* A variant of handlerUpdates whose 'ready' handler does not persist the phone
\* identity, which C6 has to reject.
handlerUpdates_noPhone(h) ==
  CASE h.kind = "qr" -> [status |-> "qr_ready", qr_code |-> toDataURL(h.arg)]
    [] h.kind = "ready" -> [status |-> "ready"]
    [] h.kind = "auth_failure" -> [status |-> "auth_failed", error_message |-> h.arg]
    [] h.kind = "disconnected" -> [status |-> "disconnected", error_message |-> h.arg]

\* Lines 80-84, 96-100, 117-121, 132-136: the fields a handler persists.
handlerUpdates(h) ==
  CASE h.kind = "qr" -> [status |-> "qr_ready", qr_code |-> toDataURL(h.arg)]
    [] h.kind = "ready" -> [status |-> "ready", phone_number |-> h.arg]
    [] h.kind = "auth_failure" -> [status |-> "auth_failed", error_message |-> h.arg]
    [] h.kind = "disconnected" -> [status |-> "disconnected", error_message |-> h.arg]

EventArgs(kind) ==
  CASE kind = "qr" -> Codes
    [] kind = "ready" -> Phones
    [] kind = "auth_failure" -> Reasons
    [] kind = "disconnected" -> Reasons

\* The transport emits qr / ready / auth_failure / disconnected: the handler
\* runs to its first await (qr: qrcode.toDataURL; the others: db.updateAccount;
\* ready reads client.info.wid.user first).
emit(a, kind, arg) ==
  /\ Emitting(a)
  /\ budget.events > 0
  /\ budget' = Spend("events")
  /\ handlers' = handlers \cup
       {[id |-> nextId, kind |-> kind, acc |-> a, arg |-> arg,
         pc |-> IF kind = "qr" THEN "render" ELSE "persist"]}
  /\ nextId' = nextId + 1
  /\ lifecycle' =
       [lifecycle EXCEPT ![a] =
          IF kind = "qr" /\ @.ph = "created" THEN Phase("qr", arg, None)
          ELSE IF kind = "ready" /\ @.ph = "qr_done" THEN Phase("ready", @.code, arg)
          ELSE Off]
  /\ UNCHANGED <<requests, managerVars, clientVars, storeVars, creates, deletes, startup,
                 ingests, sends>>

\* A variant of emit_authenticated that caches 'ready' for the account, as a
\* handler taking authentication for readiness would.  C25 has to reject it.
emit_authenticated_marksReady(a) ==
  /\ Emitting(a)
  /\ budget.events > 0
  /\ budget' = Spend("events")
  /\ accountStatus' = [accountStatus EXCEPT ![a] = "ready"]
  /\ UNCHANGED <<requests, clients, qrCodes, clientVars, storeVars, taskVars, lifecycle, nextId>>

\* Lines 111-113: authenticated is only logged.
emit_authenticated(a) ==
  /\ Emitting(a)
  /\ budget.events > 0
  /\ budget' = Spend("events")
  /\ UNCHANGED <<requests, managerVars, clientVars, storeVars, taskVars, lifecycle, nextId>>

\* Lines 76-77: the QR code is rendered and cached; db.updateAccount is called.
qr_rendered(h) ==
  /\ h.kind = "qr" /\ h.pc = "render"
  /\ qrCodes' = [qrCodes EXCEPT ![h.acc] = toDataURL(h.arg)]
  /\ handlers' = (handlers \ {h}) \cup {[h EXCEPT !.pc = "persist"]}
  /\ UNCHANGED <<requests, clients, accountStatus, clientVars, storeVars, creates, deletes,
                 startup, ingests, sends, lifecycle, nextId, budget>>

\* Lines 76, 88-90: qrcode.toDataURL rejects; the handler logs and ends.
qr_renderFails(h) ==
  /\ h.kind = "qr" /\ h.pc = "render"
  /\ handlers' = handlers \ {h}
  /\ lifecycle' = Leave(h.acc)
  /\ UNCHANGED <<requests, managerVars, clientVars, storeVars, creates, deletes,
                 startup, ingests, sends, nextId, budget>>

\* The store applies the handler's db.updateAccount.
handler_persisted(h) ==
  /\ h.pc = "persist"
  /\ whatsapp_accounts' = dbUpdateAccount(h.acc, handlerUpdates(h))
  /\ handlers' = (handlers \ {h}) \cup {[h EXCEPT !.pc = "cache"]}
  /\ UNCHANGED <<requests, managerVars, clientVars, webhooks, message_logs, creates, deletes,
                 startup, ingests, sends, lifecycle, nextId, budget>>

\* db.updateAccount rejects: the handler's catch logs, nothing else changes.
handler_persistFails(h) ==
  /\ h.pc = "persist"
  /\ handlers' = handlers \ {h}
  /\ lifecycle' = Leave(h.acc)
  /\ UNCHANGED <<requests, managerVars, clientVars, storeVars, creates, deletes,
                 startup, ingests, sends, nextId, budget>>

\* Lines 86, 102-103, 123, 138: after the await, the status is cached
\* (ready also clears the cached QR code).
handler_cached(h) ==
  /\ h.pc = "cache"
  /\ accountStatus' = [accountStatus EXCEPT ![h.acc] = handlerStatus(h.kind)]
  /\ qrCodes' = IF h.kind = "ready" THEN [qrCodes EXCEPT ![h.acc] = NoQr] ELSE qrCodes
  /\ handlers' = handlers \ {h}
  /\ lifecycle' =
       [lifecycle EXCEPT ![h.acc] =
          IF @.ph = "qr" THEN [@ EXCEPT !.ph = "qr_done"]
          ELSE IF @.ph = "ready" THEN [@ EXCEPT !.ph = "ready_done"]
          ELSE Off]
  /\ UNCHANGED <<requests, clients, clientVars, storeVars, creates, deletes,
                 startup, ingests, sends, nextId, budget>>

transportEvent ==
  \/ \E a \in Acc, kind \in {"qr", "ready", "auth_failure", "disconnected"} :
       \E arg \in EventArgs(kind) : emit(a, kind, arg)
  \/ \E a \in Acc : emit_authenticated(a)

lifecycleHandler ==
  \E h \in handlers :
    \/ qr_rendered(h)
    \/ qr_renderFails(h)
    \/ handler_persisted(h)
    \/ handler_persistFails(h)
    \/ handler_cached(h)

----------------------------------------------------------------------------
(* deleteAccount (whatsappManager.js 358-377).                             *)

\* Lines 360-362: a client is registered, `await client.destroy()`.
deleteAccount_callDestroy(a) ==
  /\ budget.deletes > 0
  /\ a \in clients
  /\ budget' = Spend("deletes")
  /\ deletes' = deletes \cup {[id |-> nextId, acc |-> a, pc |-> "destroy", result |-> None,
                                gone |-> FALSE]}
  /\ nextId' = nextId + 1
  /\ lifecycle' = Leave(a)
  /\ UNCHANGED <<requests, managerVars, clientVars, storeVars, handlers, creates, startup,
                 ingests, sends>>

\* The account is gone: no client, no cached status or QR code, no row.
Gone(a) ==
  /\ a \notin clients
  /\ accountStatus[a] = None
  /\ qrCodes[a] = NoQr
  /\ ~HasRow(a)

\* A variant of deleteAccount_callNoClient that refuses an account it does not
\* know with an error.  C17 has to reject it.
deleteAccount_callNoClient_strict(a) ==
  /\ budget.deletes > 0
  /\ a \notin clients
  /\ budget' = Spend("deletes")
  /\ qrCodes' = [qrCodes EXCEPT ![a] = NoQr]
  /\ accountStatus' = [accountStatus EXCEPT ![a] = None]
  /\ deletes' = deletes \cup
       {[id |-> nextId, acc |-> a, pc |-> IF Gone(a) THEN "done" ELSE "db",
         result |-> IF Gone(a) THEN "AccountNotFound" ELSE None, gone |-> Gone(a)]}
  /\ nextId' = nextId + 1
  /\ lifecycle' = Leave(a)
  /\ UNCHANGED <<requests, clients, clientVars, storeVars, handlers, creates, startup,
                 ingests, sends>>

\* Lines 360-370: no client is registered; the caches are cleared at once and
\* `await db.deleteAccount` follows.
deleteAccount_callNoClient(a) ==
  /\ budget.deletes > 0
  /\ a \notin clients
  /\ budget' = Spend("deletes")
  /\ qrCodes' = [qrCodes EXCEPT ![a] = NoQr]
  /\ accountStatus' = [accountStatus EXCEPT ![a] = None]
  /\ deletes' = deletes \cup {[id |-> nextId, acc |-> a, pc |-> "db", result |-> None,
                                gone |-> Gone(a)]}
  /\ nextId' = nextId + 1
  /\ lifecycle' = Leave(a)
  /\ UNCHANGED <<requests, clients, clientVars, storeVars, handlers, creates, startup,
                 ingests, sends>>

\* Lines 362-370: destroy() resolved; the client and the caches are removed.
deleteAccount_destroyed(d) ==
  /\ d.pc = "destroy"
  /\ transport' = [transport EXCEPT ![d.acc] = "destroyed"]
  /\ pupPage' = [pupPage EXCEPT ![d.acc] = "closed"]
  /\ clients' = clients \ {d.acc}
  /\ qrCodes' = [qrCodes EXCEPT ![d.acc] = NoQr]
  /\ accountStatus' = [accountStatus EXCEPT ![d.acc] = None]
  /\ deletes' = (deletes \ {d}) \cup {[d EXCEPT !.pc = "db"]}
  /\ lifecycle' = Leave(d.acc)
  /\ UNCHANGED <<requests, storeVars, handlers, creates, startup, ingests, sends,
                 nextId, budget>>

\* Lines 362, 373-376: destroy() rejects; the error is thrown.
deleteAccount_destroyFails(d) ==
  /\ d.pc = "destroy"
  /\ deletes' = (deletes \ {d}) \cup {[d EXCEPT !.pc = "done", !.result = "TransportError"]}
  /\ UNCHANGED <<requests, managerVars, clientVars, storeVars, handlers, creates, startup,
                 ingests, sends, lifecycle, nextId, budget>>

\* A variant of deleteAccount_deleted in which the account's log entries go
\* with the row.  C23 has to reject it.
deleteAccount_deleted_purges(d) ==
  /\ d.pc = "db"
  /\ whatsapp_accounts' = dbDeleteAccount(d.acc)
  /\ message_logs' = SelectSeq(message_logs, LAMBDA e : e.account_id # d.acc)
  /\ deletes' = (deletes \ {d}) \cup {[d EXCEPT !.pc = "done", !.result = "ok"]}
  /\ lifecycle' = Leave(d.acc)
  /\ UNCHANGED <<requests, managerVars, clientVars, webhooks, handlers, creates,
                 startup, ingests, sends, nextId, budget>>

\* Lines 370-372: the store deletes the row; true is returned.
deleteAccount_deleted(d) ==
  /\ d.pc = "db"
  /\ whatsapp_accounts' = dbDeleteAccount(d.acc)
  /\ deletes' = (deletes \ {d}) \cup {[d EXCEPT !.pc = "done", !.result = "ok"]}
  /\ lifecycle' = Leave(d.acc)
  /\ UNCHANGED <<requests, managerVars, clientVars, webhooks, message_logs, handlers, creates,
                 startup, ingests, sends, nextId, budget>>

\* Lines 370, 373-376: db.deleteAccount rejects; the error is thrown.
deleteAccount_deleteFails(d) ==
  /\ d.pc = "db"
  /\ deletes' = (deletes \ {d}) \cup {[d EXCEPT !.pc = "done", !.result = "StoreError"]}
  /\ UNCHANGED <<requests, managerVars, clientVars, storeVars, handlers, creates, startup,
                 ingests, sends, lifecycle, nextId, budget>>

deleteAccount ==
  \/ \E a \in Acc : deleteAccount_callDestroy(a) \/ deleteAccount_callNoClient(a)
  \/ \E d \in deletes :
       \/ deleteAccount_destroyed(d)
       \/ deleteAccount_destroyFails(d)
       \/ deleteAccount_deleted(d)
       \/ deleteAccount_deleteFails(d)

----------------------------------------------------------------------------
(* initializeExistingAccounts and reconnectAccount (whatsappManager.js     *)
(* 380-440), called once when the server starts (index.js 397-422).        *)

\* Line 385: the accounts that are re-attached.
shouldReconnect(status) == status = "ready" \/ status = "qr_ready"

\* Lines 434-437: what reconnectAccount persists when initialize() rejected
\* with `error`.
reconnectFailureUpdates(error) == [status |-> "disconnected"]

\* Line 425: the status cached when the client is registered again.
reconnectStatus == "initializing"

\* Lines 384-388: the next account of the fetched list to re-attach (0: none).
NextEligible(rows, i) ==
  LET later == {j \in (i + 1)..Len(rows) : shouldReconnect(rows[j].status)}
  IN  IF later = {} THEN 0 ELSE CHOOSE j \in later : \A k \in later : j <= k

\* Lines 384-388 with 397-428: the loop goes on from index i of the list, the
\* task being su and the manager's maps cl, st, tr, pp: it ends, or
\* reconnectAccount registers a new client for the next account and awaits its
\* initialize().
ContinueLoop(su, i, cl, st, tr, pp) ==
  LET j == NextEligible(su.rows, i)
      a == su.rows[j].id
  IN  IF j = 0
      THEN /\ clients' = cl /\ accountStatus' = st
           /\ transport' = tr /\ pupPage' = pp
           /\ startup' = [su EXCEPT !.pc = "done"]
      ELSE /\ clients' = cl \cup {a}
           /\ accountStatus' = [st EXCEPT ![a] = reconnectStatus]
           /\ transport' = [tr EXCEPT ![a] = "initializing"]
           /\ pupPage' = [pp EXCEPT ![a] = "open"]
           /\ startup' = [su EXCEPT !.pc = "initialize", !.i = j,
                                    !.attempted = @ \cup {a}]

Current == startup.rows[startup.i].id

\* Line 382: the call, up to `await db.getAccounts()`.
initializeExistingAccounts_call ==
  /\ startup.pc = "idle"
  /\ startup' = [startup EXCEPT !.pc = "getAccounts"]
  /\ UNCHANGED <<requests, managerVars, clientVars, storeVars, handlers, creates, deletes,
                 ingests, sends, lifecycle, nextId, budget>>

\* Lines 382-386: the store answers; the loop starts.
initializeExistingAccounts_fetched ==
  /\ startup.pc = "getAccounts"
  /\ ContinueLoop([startup EXCEPT !.rows = dbGetAccounts], 0, clients, accountStatus,
                  transport, pupPage)
  /\ UNCHANGED <<requests, qrCodes, storeVars, handlers, creates, deletes,
                 ingests, sends, lifecycle, nextId, budget>>

\* Lines 382, 389-391: db.getAccounts rejects; logged, nothing is re-attached.
initializeExistingAccounts_fetchFails ==
  /\ startup.pc = "getAccounts"
  /\ startup' = [startup EXCEPT !.pc = "done"]
  /\ UNCHANGED <<requests, managerVars, clientVars, storeVars, handlers, creates, deletes,
                 ingests, sends, lifecycle, nextId, budget>>

\* Lines 428-430, 384-388: initialize() resolved; on to the next account.
reconnectAccount_initialized ==
  /\ startup.pc = "initialize"
  /\ transport[Current] = "initializing"
  /\ ContinueLoop(startup, startup.i, clients, accountStatus,
                  [transport EXCEPT ![Current] = "up"], pupPage)
  /\ UNCHANGED <<requests, qrCodes, storeVars, handlers, creates, deletes,
                 ingests, sends, lifecycle, nextId, budget>>

\* Lines 428, 431-434: initialize() rejected; `await db.updateAccount`.
reconnectAccount_initializeFails(error) ==
  /\ startup.pc = "initialize"
  /\ transport[Current] \in {"initializing", "destroyed"}
  /\ transport' = [transport EXCEPT ![Current] = IF @ = "destroyed" THEN @ ELSE "failed"]
  /\ pupPage' = [pupPage EXCEPT ![Current] = "closed"]
  /\ startup' = [startup EXCEPT !.pc = "persist", !.error = error,
                                !.failure[Current] = error]
  /\ UNCHANGED <<requests, managerVars, storeVars, handlers, creates, deletes,
                 ingests, sends, lifecycle, nextId, budget>>

\* The store applies the update of lines 434-437.
reconnectAccount_persisted ==
  /\ startup.pc = "persist"
  /\ whatsapp_accounts' = dbUpdateAccount(Current, reconnectFailureUpdates(startup.error))
  /\ startup' = [startup EXCEPT !.pc = "cache"]
  /\ UNCHANGED <<requests, managerVars, clientVars, webhooks, message_logs, handlers, creates,
                 deletes, ingests, sends, lifecycle, nextId, budget>>

\* db.updateAccount rejects inside the catch of lines 431-439: the error leaves
\* reconnectAccount and the loop, and is logged at lines 389-391.
reconnectAccount_persistFails ==
  /\ startup.pc = "persist"
  /\ startup' = [startup EXCEPT !.pc = "done", !.aborted = TRUE]
  /\ UNCHANGED <<requests, managerVars, clientVars, storeVars, handlers, creates, deletes,
                 ingests, sends, lifecycle, nextId, budget>>

\* Line 438, then 384-388: the status is cached; on to the next account.
reconnectAccount_cached ==
  /\ startup.pc = "cache"
  /\ ContinueLoop([startup EXCEPT !.marked = @ \cup {Current}], startup.i, clients,
                  [accountStatus EXCEPT ![Current] = "disconnected"],
                  transport, pupPage)
  /\ UNCHANGED <<requests, qrCodes, storeVars, handlers, creates, deletes,
                 ingests, sends, lifecycle, nextId, budget>>

initializeExistingAccounts ==
  \/ initializeExistingAccounts_call
  \/ initializeExistingAccounts_fetched
  \/ initializeExistingAccounts_fetchFails
  \/ reconnectAccount_initialized
  \/ \E error \in InitErrors : reconnectAccount_initializeFails(error)
  \/ reconnectAccount_persisted
  \/ reconnectAccount_persistFails
  \/ reconnectAccount_cached

----------------------------------------------------------------------------
(* The 'message' handler: handleIncomingMessage and sendToWebhooks         *)
(* (whatsappManager.js 145-250).                                           *)

\* A row of message_logs; `task` is the observer's note of who wrote it.
Entry(a, direction, status, webhook_id, message, error, task) ==
  [account_id |-> a, direction |-> direction, status |-> status,
   webhook_id |-> webhook_id, message |-> message, error_message |-> error,
   task |-> task]

\* db.logMessage(messageData): insert one row.
dbLogMessage(entry) == Append(message_logs, entry)

\* db.getWebhooks(accountId): the account's webhooks, newest first.
RECURSIVE WebhooksFrom(_, _)
WebhooksFrom(a, w) ==
  IF w < 1 THEN <<>>
  ELSE (IF webhooks[w].account = a
        THEN <<[id |-> w, is_active |-> webhooks[w].is_active]>>
        ELSE <<>>) \o WebhooksFrom(a, w - 1)
dbGetWebhooks(a) == WebhooksFrom(a, MaxWebhooks)

\* A variant of NextActive without the is_active test of line 211, which C2
\* has to reject.
NextActive_all(list, i) == IF i < Len(list) THEN i + 1 ELSE 0

\* Lines 210-211: the next webhook of the fetched list that is delivered to
\* (0: the loop is over).
NextActive(list, i) ==
  LET later == {j \in (i + 1)..Len(list) : list[j].is_active}
  IN  IF later = {} THEN 0 ELSE CHOOSE j \in later : \A k \in later : j <= k

Replace(set, old, new) == (set \ {old}) \cup {new}

\* A variant of incomingEntry that leaves the message body out of the entry.
\* C22 has to reject it.
incomingEntry_noBody(t) == Entry(t.acc, "incoming", None, 0, None, None, t.id)

\* Lines 160-173: the entry of an inbound message (no status field is set).
incomingEntry(t) == Entry(t.acc, "incoming", None, 0, t.body, None, t.id)

\* Lines 195-201: the entry logged when handling the message failed.
incomingFailedEntry(t) == Entry(t.acc, "incoming", "failed", 0, None, t.error, t.id)

\* Lines 224-232 / 236-244: the entry of a delivery outcome.
webhookEntry(t, status) ==
  Entry(t.acc, "webhook", status, t.list[t.i].id, None,
        IF status = "failed" THEN t.error ELSE None, t.id)

\* The transport emits 'message': lines 145-157, up to `await message.getChat()`.
emit_message(a, body, hasMedia) ==
  /\ Emitting(a)
  /\ budget.messages > 0
  /\ budget' = Spend("messages")
  /\ ingests' = ingests \cup
       {[id |-> nextId, acc |-> a, body |-> body, hasMedia |-> hasMedia,
         pc |-> "getChat", list |-> <<>>, i |-> 0, error |-> None,
         fetched |-> FALSE, posted |-> {}, delivered |-> {}, rejected |-> FALSE,
         result |-> None]}
  /\ nextId' = nextId + 1
  /\ UNCHANGED <<requests, managerVars, clientVars, storeVars, handlers, creates, deletes,
                 startup, sends, lifecycle>>

ingestFrame == UNCHANGED <<requests, managerVars, clientVars, whatsapp_accounts, webhooks,
                           handlers, creates, deletes, startup, sends, lifecycle,
                           nextId, budget>>

\* Lines 157-186: getChat() resolved; media is downloaded or the entry is logged.
ingest_gotChat(t) ==
  /\ t.pc = "getChat"
  /\ ingests' = Replace(ingests, t, [t EXCEPT !.pc = IF t.hasMedia THEN "media" ELSE "log"])
  /\ UNCHANGED message_logs
  /\ ingestFrame

\* Lines 177-186: downloadMedia() resolved; the entry is logged.
ingest_gotMedia(t) ==
  /\ t.pc = "media"
  /\ ingests' = Replace(ingests, t, [t EXCEPT !.pc = "log"])
  /\ UNCHANGED message_logs
  /\ ingestFrame

\* A variant of ingest_fails that goes on to sendToWebhooks after the failure,
\* as if line 189 stood behind the try block.  C20 has to reject it.
ingest_fails_dispatches(t, error) ==
  /\ \/ t.pc = "getChat" /\ error = "ChatError"
     \/ t.pc = "media" /\ error = "MediaError"
     \/ t.pc = "log" /\ error = "StoreError"
  /\ ingests' = Replace(ingests, t, [t EXCEPT !.pc = "fetch", !.error = error])
  /\ UNCHANGED message_logs
  /\ ingestFrame

\* Lines 157/177/186, 191-201: getChat, downloadMedia or db.logMessage rejected;
\* the catch logs a failed incoming entry.
ingest_fails(t, error) ==
  /\ \/ t.pc = "getChat" /\ error = "ChatError"
     \/ t.pc = "media" /\ error = "MediaError"
     \/ t.pc = "log" /\ error = "StoreError"
  /\ ingests' = Replace(ingests, t, [t EXCEPT !.pc = "logError", !.error = error])
  /\ UNCHANGED message_logs
  /\ ingestFrame

\* A variant of ingest_logged in which the messages of an account are handled
\* one at a time: the entry is inserted only once no earlier message of the
\* account is still being dispatched.  C10 has to reject it.
ingest_logged_serial(t) ==
  /\ t.pc = "log"
  /\ \A e \in ingests : (e.acc = t.acc /\ e.id < t.id) => e.pc = "done"
  /\ message_logs' = dbLogMessage(incomingEntry(t))
  /\ ingests' = Replace(ingests, t, [t EXCEPT !.pc = "fetch"])
  /\ ingestFrame

\* Lines 186-189, 206-208: the store inserts the incoming entry; sendToWebhooks
\* is called and awaits db.getWebhooks.
ingest_logged(t) ==
  /\ t.pc = "log"
  /\ message_logs' = dbLogMessage(incomingEntry(t))
  /\ ingests' = Replace(ingests, t, [t EXCEPT !.pc = "fetch"])
  /\ ingestFrame

\* Lines 195-203: the failed entry is inserted; handleIncomingMessage returns.
ingest_errorLogged(t) ==
  /\ t.pc = "logError"
  /\ message_logs' = dbLogMessage(incomingFailedEntry(t))
  /\ ingests' = Replace(ingests, t, [t EXCEPT !.pc = "done", !.result = "ok"])
  /\ ingestFrame

\* Lines 195-201, 148-150: logging the failure rejects too; handleIncomingMessage
\* throws and the 'message' handler logs the error.
ingest_errorLogFails(t) ==
  /\ t.pc = "logError"
  /\ ingests' = Replace(ingests, t, [t EXCEPT !.pc = "done", !.result = "threw"])
  /\ UNCHANGED message_logs
  /\ ingestFrame

\* Lines 210-221 (and 189, 203 when the loop is over): the loop goes on after
\* index t.i of the list: the next active webhook is POSTed to, or
\* sendToWebhooks and handleIncomingMessage return.
Deliver(t) ==
  LET j == NextActive(t.list, t.i)
  IN  IF j = 0 THEN [t EXCEPT !.pc = "done", !.result = "ok"]
      ELSE [t EXCEPT !.pc = "post", !.i = j, !.posted = @ \cup {t.list[j].id}]

\* Lines 208-221: the store answers db.getWebhooks; the loop starts.
dispatch_fetched(t) ==
  /\ t.pc = "fetch"
  /\ ingests' = Replace(ingests, t, Deliver([t EXCEPT !.list = dbGetWebhooks(t.acc), !.fetched = TRUE]))
  /\ UNCHANGED message_logs
  /\ ingestFrame

\* Lines 208, 247-249: db.getWebhooks rejects; logged, sendToWebhooks returns.
dispatch_fetchFails(t) ==
  /\ t.pc = "fetch"
  /\ ingests' = Replace(ingests, t, [t EXCEPT !.pc = "done", !.result = "ok",
                                              !.rejected = TRUE])
  /\ UNCHANGED message_logs
  /\ ingestFrame

\* Lines 214-232: the POST got a 2xx response; the success entry is logged.
dispatch_postOk(t) ==
  /\ t.pc = "post"
  /\ ingests' = Replace(ingests, t,
       [t EXCEPT !.pc = "logSuccess", !.delivered = @ \cup {t.list[t.i].id}])
  /\ UNCHANGED message_logs
  /\ ingestFrame

\* A variant of dispatch_postFails without the inner try/catch of lines 213 and
\* 234: the delivery error reaches the catch of handleIncomingMessage.  C19 has
\* to reject it.
dispatch_postFails_propagates(t, error) ==
  /\ t.pc = "post"
  /\ ingests' = Replace(ingests, t, [t EXCEPT !.pc = "logError", !.error = error])
  /\ UNCHANGED message_logs
  /\ ingestFrame

\* Lines 214, 234-244: the POST timed out, failed or got a non-2xx response;
\* the failed entry is logged.
dispatch_postFails(t, error) ==
  /\ t.pc = "post"
  /\ ingests' = Replace(ingests, t, [t EXCEPT !.pc = "logFailure", !.error = error])
  /\ UNCHANGED message_logs
  /\ ingestFrame

\* Lines 224-232, then 210-221: the success entry is inserted; next webhook.
dispatch_successLogged(t) ==
  /\ t.pc = "logSuccess"
  /\ message_logs' = dbLogMessage(webhookEntry(t, "success"))
  /\ ingests' = Replace(ingests, t, Deliver(t))
  /\ ingestFrame

\* Lines 224, 234-244: logging the success rejects; the inner catch logs a
\* failed entry for the webhook.
dispatch_successLogFails(t) ==
  /\ t.pc = "logSuccess"
  /\ ingests' = Replace(ingests, t, [t EXCEPT !.pc = "logFailure", !.error = "StoreError",
                                              !.rejected = TRUE])
  /\ UNCHANGED message_logs
  /\ ingestFrame

\* Lines 236-245, then 210-221: the failed entry is inserted; next webhook.
dispatch_failureLogged(t) ==
  /\ t.pc = "logFailure"
  /\ message_logs' = dbLogMessage(webhookEntry(t, "failed"))
  /\ ingests' = Replace(ingests, t, Deliver(t))
  /\ ingestFrame

\* Lines 236, 247-249: logging the failure rejects inside the inner catch; the
\* error leaves the loop, is logged, and sendToWebhooks returns.
dispatch_failureLogFails(t) ==
  /\ t.pc = "logFailure"
  /\ ingests' = Replace(ingests, t, [t EXCEPT !.pc = "done", !.result = "ok",
                                              !.rejected = TRUE])
  /\ UNCHANGED message_logs
  /\ ingestFrame

PostErrors == {"timeout"}

messageEvent ==
  \E a \in Acc, body \in Bodies, hasMedia \in BOOLEAN : emit_message(a, body, hasMedia)

handleIncomingMessage ==
  \E t \in ingests :
    \/ ingest_gotChat(t)
    \/ ingest_gotMedia(t)
    \/ \E error \in {"ChatError", "MediaError", "StoreError"} : ingest_fails(t, error)
    \/ ingest_logged(t)
    \/ ingest_errorLogged(t)
    \/ ingest_errorLogFails(t)

sendToWebhooks ==
  \E t \in ingests :
    \/ dispatch_fetched(t)
    \/ dispatch_fetchFails(t)
    \/ dispatch_postOk(t)
    \/ \E error \in PostErrors : dispatch_postFails(t, error)
    \/ dispatch_successLogged(t)
    \/ dispatch_successLogFails(t)
    \/ dispatch_failureLogged(t)
    \/ dispatch_failureLogFails(t)

----------------------------------------------------------------------------
(* sendMessage and formatPhoneNumber (whatsappManager.js 253-336).  A      *)
(* string is the sequence of its characters.                               *)

Digits == {"0", "1", "2", "3", "4", "5", "6", "7", "8", "9"}
IsDigitOrPlus(ch) == ch \in Digits \cup {"+"}

\* A variant of formatPhoneNumber without the startsWith('+') test of line 330:
\* the country code is always prepended.  C15 has to reject it.
formatPhoneNumber_alwaysPrefix(number) ==
  <<"+", "9", "1">> \o SelectSeq(number, IsDigitOrPlus) \o <<"@", "c", ".", "u", "s">>

\* Lines 325-336.
formatPhoneNumber(number) ==
  LET cleaned == SelectSeq(number, IsDigitOrPlus)
      prefixed == IF Len(cleaned) > 0 /\ cleaned[1] = "+" THEN cleaned
                  ELSE <<"+", "9", "1">> \o cleaned
  IN  prefixed \o <<"@", "c", ".", "u", "s">>

\* Lines 257-274: the checks before the send; the error thrown, or "none".
sendPrecondition(a) ==
  IF a \notin clients THEN "ClientNotFound"
  ELSE IF accountStatus[a] # "ready" THEN "NotReady"
  ELSE IF pupPage[a] # "open" THEN "PageClosed"
  ELSE None

\* Lines 253-282, 306-318: the call: a check fails and the catch logs a failed
\* entry, or client.sendMessage is called with the formatted number.  The
\* caller says what becomes of `requests`.
sendMessage_call(a, number, message) ==
  /\ budget.sends > 0
  /\ budget' = Spend("sends")
  /\ LET error == sendPrecondition(a)
     IN  sends' = sends \cup
           {[id |-> nextId, acc |-> a, number |-> number, message |-> message,
             hadClient |-> a \in clients, status |-> accountStatus[a],
             pc |-> IF error = None THEN "send" ELSE "logFailure",
             error |-> error,
             invoked |-> error = None,
             accepted |-> FALSE,
             to |-> IF error = None THEN formatPhoneNumber(number) ELSE <<>>,
             result |-> None]}
  /\ nextId' = nextId + 1
  /\ UNCHANGED <<managerVars, clientVars, storeVars, handlers, creates, deletes,
                 startup, ingests, lifecycle>>

sendFrame == UNCHANGED <<requests, managerVars, clientVars, whatsapp_accounts, webhooks,
                         handlers, creates, deletes, startup, ingests, lifecycle,
                         nextId, budget>>

\* Lines 282-298: the transport sent the message; the success entry is logged.
sendMessage_sent(t) ==
  /\ t.pc = "send"
  /\ Emitting(t.acc)
  /\ sends' = Replace(sends, t, [t EXCEPT !.pc = "logSuccess", !.accepted = TRUE])
  /\ UNCHANGED message_logs
  /\ sendFrame

\* Lines 282, 306-318: client.sendMessage rejects; the catch logs a failed entry.
sendMessage_sendFails(t) ==
  /\ t.pc = "send"
  /\ sends' = Replace(sends, t, [t EXCEPT !.pc = "logFailure", !.error = "TransportError"])
  /\ UNCHANGED message_logs
  /\ sendFrame

\* Lines 298-304: the success entry is inserted; the result is returned.
sendMessage_successLogged(t) ==
  /\ t.pc = "logSuccess"
  /\ message_logs' = dbLogMessage(Entry(t.acc, "outgoing", "success", 0, t.message, None, t.id))
  /\ sends' = Replace(sends, t, [t EXCEPT !.pc = "done", !.result = "ok"])
  /\ sendFrame

\* Lines 298, 306-318: logging the success rejects; the catch logs a failed entry.
sendMessage_successLogFails(t) ==
  /\ t.pc = "logSuccess"
  /\ sends' = Replace(sends, t, [t EXCEPT !.pc = "logFailure", !.error = "StoreError"])
  /\ UNCHANGED message_logs
  /\ sendFrame

\* Lines 310-320: the failed entry is inserted; the error is thrown.
sendMessage_failureLogged(t) ==
  /\ t.pc = "logFailure"
  /\ message_logs' = dbLogMessage(Entry(t.acc, "outgoing", "failed", 0, t.message, t.error, t.id))
  /\ sends' = Replace(sends, t, [t EXCEPT !.pc = "done", !.result = t.error])
  /\ sendFrame

\* Line 310: db.logMessage rejects inside the catch; its error is what the
\* caller gets, line 320 is not reached.
sendMessage_failureLogFails(t) ==
  /\ t.pc = "logFailure"
  /\ sends' = Replace(sends, t, [t EXCEPT !.pc = "done", !.result = "StoreError"])
  /\ UNCHANGED message_logs
  /\ sendFrame

sendMessage ==
  \/ \E a \in Acc, number \in Numbers, message \in Bodies :
       sendMessage_call(a, number, message) /\ UNCHANGED requests
  \/ \E t \in sends :
       \/ sendMessage_sent(t)
       \/ sendMessage_sendFails(t)
       \/ sendMessage_successLogged(t)
       \/ sendMessage_successLogFails(t)
       \/ sendMessage_failureLogged(t)
       \/ sendMessage_failureLogFails(t)

\* The browser page of a client closes (a crash): client.pupPage._closed.
pageCloses(a) ==
  /\ budget.pages > 0
  /\ pupPage[a] = "open"
  /\ budget' = Spend("pages")
  /\ pupPage' = [pupPage EXCEPT ![a] = "closed"]
  /\ UNCHANGED <<requests, managerVars, transport, storeVars, taskVars, lifecycle, nextId>>

----------------------------------------------------------------------------
(* The webhook routes of index.js.                                         *)

\* PATCH /api/webhooks/:id/toggle (index.js 164-181): is_active is flipped.
toggleWebhook(w) ==
  /\ budget.toggles > 0
  /\ webhooks[w].account # 0
  /\ budget' = Spend("toggles")
  /\ webhooks' = [webhooks EXCEPT ![w].is_active = ~@]
  /\ UNCHANGED <<requests, managerVars, clientVars, whatsapp_accounts, message_logs, taskVars,
                 lifecycle, nextId>>

webhookRoutes == \E w \in WebhookIds : toggleWebhook(w)

\* No row under a webhook id.
NoWebhook == [account |-> 0, is_active |-> FALSE, secret |-> None]

\* db.createWebhook(webhookData) (part_001 76-94): insert one row.
dbCreateWebhook(w, row) == [webhooks EXCEPT ![w] = row]

\* db.deleteWebhook(id) (part_001 128-136): delete the row.
dbDeleteWebhook(w) == [webhooks EXCEPT ![w] = NoWebhook]

\* What the routes read from req.body.  A field left out of the body and an
\* empty one are the same to the `!field` tests: 0 is no account id, the
\* empty string no name, number, message or url.
Names == {"", "main"}
Urls == {"", "http://hook"}
AccountIds == Acc \cup {0}
SendNumbers == Numbers \cup {<<>>}
SendBodies == Bodies \cup {""}

\* `return res.status(400).json(...)`: the request is answered, nothing else
\* happens.
respond400(route, body) ==
  /\ budget.requests > 0
  /\ budget' = Spend("requests")
  /\ requests' = requests \cup
       {[id |-> nextId, route |-> route, body |-> body, pc |-> "done", code |-> 400,
         seen |-> <<>>, send |-> 0]}
  /\ nextId' = nextId + 1
  /\ UNCHANGED <<managerVars, clientVars, storeVars, taskVars, lifecycle>>

\* POST /api/accounts (index.js 83-97): `if (!name)` answers 400, otherwise
\* whatsappManager.createAccount is called (uuidv4 picks the id).
postAccounts(name) ==
  IF name = ""
  THEN respond400("POST /api/accounts", <<name>>)
  ELSE \E a \in Acc : createAccount_call(a)

\* A variant of postSend that does not test `number`.  C24 has to reject it.
postSend_numberUnchecked(account_id, number, message) ==
  IF account_id = 0 \/ message = ""
  THEN respond400("POST /api/send", <<account_id, number, message>>)
  ELSE sendMessage_call(account_id, number, message) /\ UNCHANGED requests

\* POST /api/send (index.js 242-261): `if (!account_id || !number || !message)`
\* answers 400, otherwise whatsappManager.sendMessage is called.
postSend(account_id, number, message) ==
  IF account_id = 0 \/ number = <<>> \/ message = ""
  THEN respond400("POST /api/send", <<account_id, number, message>>)
  ELSE sendMessage_call(account_id, number, message) /\ UNCHANGED requests

\* POST /api/webhooks (index.js 133-162): `if (!account_id || !url)` answers
\* 400, otherwise the webhook is inserted under a new id, active unless
\* is_active is false.
postWebhooks(w, account_id, url, is_active) ==
  IF account_id = 0 \/ url = ""
  THEN respond400("POST /api/webhooks", <<account_id, url>>)
  ELSE /\ budget.hooks > 0
       /\ webhooks[w] = NoWebhook
       /\ budget' = Spend("hooks")
       /\ webhooks' = dbCreateWebhook(w, [account |-> account_id, is_active |-> is_active,
                                          secret |-> None])
       /\ UNCHANGED <<requests, managerVars, clientVars, whatsapp_accounts, message_logs,
                      taskVars, lifecycle, nextId>>

\* DELETE /api/webhooks/:id (index.js 183-191).
deleteWebhook(w) ==
  /\ budget.hooks > 0
  /\ webhooks[w] # NoWebhook
  /\ budget' = Spend("hooks")
  /\ webhooks' = dbDeleteWebhook(w)
  /\ UNCHANGED <<requests, managerVars, clientVars, whatsapp_accounts, message_logs,
                 taskVars, lifecycle, nextId>>

\* What /api/webhook-reply reads as req.body.webhook_secret: none, the secret
\* of a webhook, another string.
ReplySecrets == Secrets \cup {"", "wrong"}

\* A variant of validWebhook without the is_active test of index.js 222.  C33
\* has to reject it.
validWebhook_anyState(rows, webhook_secret) ==
  \E webhook \in rows : webhook.secret = webhook_secret

\* index.js 222: `webhooks.find(webhook => webhook.secret === webhook_secret &&
\* webhook.is_active)` finds a webhook among the rows db.getWebhooks returned.
validWebhook(rows, webhook_secret) ==
  \E webhook \in rows : webhook.secret = webhook_secret /\ webhook.is_active

\* db.getWebhooks(accountId) (part_001 96-105): the rows of the account.
dbGetWebhookRows(a) == {webhooks[w] : w \in {v \in WebhookIds : webhooks[v].account = a}}

\* POST /api/webhook-reply (index.js 211-221): a field is missing and 400 is
\* answered, or `await db.getWebhooks(account_id)`.  `seen` and `send` are
\* the observer's: the table as it was at the check, the sendMessage call made.
postWebhookReply(account_id, number, message, webhook_secret) ==
  IF account_id = 0 \/ number = <<>> \/ message = "" \/ webhook_secret = ""
  THEN respond400("POST /api/webhook-reply", <<account_id, number, message, webhook_secret>>)
  ELSE /\ budget.requests > 0
       /\ budget' = Spend("requests")
       /\ requests' = requests \cup
            {[id |-> nextId, route |-> "POST /api/webhook-reply",
              body |-> <<account_id, number, message, webhook_secret>>,
              pc |-> "getWebhooks", code |-> 0, seen |-> <<>>, send |-> 0]}
       /\ nextId' = nextId + 1
       /\ UNCHANGED <<managerVars, clientVars, storeVars, taskVars, lifecycle>>

\* index.js 221-231: the store answers; no active webhook of the account has
\* the secret and 401 is answered, or whatsappManager.sendMessage is called.
webhookReply_checked(r) ==
  /\ r.route = "POST /api/webhook-reply" /\ r.pc = "getWebhooks"
  /\ IF validWebhook(dbGetWebhookRows(r.body[1]), r.body[4])
     THEN /\ sendMessage_call(r.body[1], r.body[2], r.body[3])
          /\ requests' = Replace(requests, r, [r EXCEPT !.pc = "sendMessage", !.seen = webhooks,
                                                       !.send = nextId])
     ELSE /\ requests' = Replace(requests, r, [r EXCEPT !.pc = "done", !.code = 401,
                                                       !.seen = webhooks])
          /\ UNCHANGED <<managerVars, clientVars, storeVars, taskVars, lifecycle, nextId, budget>>

\* index.js 221, 235-238: db.getWebhooks rejects; 500 is answered.
webhookReply_fetchFails(r) ==
  /\ r.route = "POST /api/webhook-reply" /\ r.pc = "getWebhooks"
  /\ requests' = Replace(requests, r, [r EXCEPT !.pc = "done", !.code = 500])
  /\ UNCHANGED <<managerVars, clientVars, storeVars, taskVars, lifecycle, nextId, budget>>

webhookReply ==
  \/ \E account_id \in AccountIds, number \in SendNumbers, message \in SendBodies,
        webhook_secret \in ReplySecrets :
       postWebhookReply(account_id, number, message, webhook_secret)
  \/ \E r \in requests : webhookReply_checked(r) \/ webhookReply_fetchFails(r)

----------------------------------------------------------------------------
(* Initial states: the process has just started, the manager's maps are    *)
(* empty (constructor, lines 9-13); the store holds what earlier runs left.*)

NoStartup == [pc |-> "idle", rows |-> <<>>, i |-> 0, error |-> None,
              \* the observer's notes: the accounts reconnectAccount was called for,
              \* the error of those whose initialize() rejected, those line 438 marked
              attempted |-> {}, failure |-> [a \in Acc |-> None], marked |-> {},
              aborted |-> FALSE]

NoBudget == [creates |-> 0, events |-> 0, messages |-> 0, sends |-> 0, deletes |-> 0, toggles |-> 0,
             pages |-> 0, requests |-> 0, hooks |-> 0]

InitManager ==
  /\ clients = {}
  /\ qrCodes = [a \in Acc |-> NoQr]
  /\ accountStatus = [a \in Acc |-> None]
  /\ transport = [a \in Acc |-> None]
  /\ pupPage = [a \in Acc |-> Absent]
  /\ handlers = {} /\ creates = {} /\ deletes = {} /\ ingests = {} /\ sends = {}
  /\ requests = {}
  /\ startup = NoStartup
  /\ lifecycle = [a \in Acc |-> Off]
  /\ nextId = 1

\* Rows the manager wrote in earlier runs.
StoredRows ==
  {NoRow} \cup
  {accountData(s) : s \in Statuses}

\* A fresh installation: no accounts yet; accounts are created, the transport
\* emits lifecycle events, accounts are deleted.
InitLifecycle ==
  /\ InitManager
  /\ whatsapp_accounts = [a \in Acc |-> NoRow]
  /\ webhooks = [w \in WebhookIds |-> [account |-> 0, is_active |-> FALSE, secret |-> None]]
  /\ message_logs = <<>>
  /\ budget = [NoBudget EXCEPT !.creates = MaxCreates, !.events = MaxEvents,
                                !.deletes = MaxDeletes]

NextLifecycle ==
  \/ createAccount
  \/ transportEvent
  \/ lifecycleHandler
  \/ deleteAccount

SpecLifecycle == InitLifecycle /\ [][NextLifecycle]_vars

\* A restart: the store holds accounts of every status; the server runs
\* initializeExistingAccounts and the re-attached clients emit events.
InitStartup ==
  /\ InitManager
  /\ whatsapp_accounts \in [Acc -> StoredRows]
  /\ webhooks = [w \in WebhookIds |-> [account |-> 0, is_active |-> FALSE, secret |-> None]]
  /\ message_logs = <<>>
  /\ budget = [NoBudget EXCEPT !.events = MaxEvents - 1]

NextStartup ==
  \/ initializeExistingAccounts
  \/ transportEvent
  \/ lifecycleHandler

SpecStartup == InitStartup /\ [][NextStartup]_vars

\* The same restart when every awaited call settles: the store and the
\* transport answer each call of initializeExistingAccounts and
\* reconnectAccount, with a result or an error, and the event loop runs the
\* continuation.
SpecStartupFair == SpecStartup /\ WF_vars(initializeExistingAccounts)

\* Rows of table webhooks: none, or a webhook of an account.
StoredWebhooks ==
  {NoWebhook} \cup
  {[account |-> a, is_active |-> b, secret |-> x] : a \in Acc, b \in BOOLEAN, x \in Secrets}

\* The manager with a client registered, initialized and ready for the accounts
\* of `ready` (createAccount, then a ready event handled).
RunningManager(ready) ==
  /\ clients = ready
  /\ qrCodes = [a \in Acc |-> NoQr]
  /\ accountStatus = [a \in Acc |-> IF a \in ready THEN "ready" ELSE None]
  /\ transport = [a \in Acc |-> IF a \in ready THEN "up" ELSE None]
  /\ pupPage = [a \in Acc |-> IF a \in ready THEN "open" ELSE Absent]
  /\ whatsapp_accounts =
       [a \in Acc |-> IF a \in ready
                      THEN [status |-> "ready", phone_number |-> "1555000111",
                            qr_code |-> NoQr, error_message |-> None]
                      ELSE NoRow]
  /\ handlers = {} /\ creates = {} /\ deletes = {} /\ ingests = {} /\ sends = {}
  /\ requests = {}
  /\ startup = [NoStartup EXCEPT !.pc = "done"]
  /\ lifecycle = [a \in Acc |-> Off]
  /\ nextId = 1

\* Inbound messages: the accounts are connected and have webhooks, some active;
\* messages arrive, are logged and dispatched; webhooks are toggled meanwhile.
InitIngest ==
  /\ RunningManager(Acc)
  /\ webhooks \in [WebhookIds -> StoredWebhooks]
  /\ message_logs = <<>>
  /\ budget = [NoBudget EXCEPT !.messages = MaxMessages, !.toggles = MaxToggles]

NextIngest ==
  \/ messageEvent
  \/ handleIncomingMessage
  \/ sendToWebhooks
  \/ webhookRoutes

SpecIngest == InitIngest /\ [][NextIngest]_vars

\* Outbound sends: account 1 was created, its client initialized, and events
\* brought it to some status; account 2 has no session.  A further event changes
\* the status while sends are called; the account is deleted; the page closes.
InitSend ==
  /\ clients = {1}
  /\ qrCodes = [a \in Acc |-> NoQr]
  /\ \E st \in Statuses :
       /\ accountStatus = [a \in Acc |-> IF a = 1 THEN st ELSE None]
       /\ whatsapp_accounts = [a \in Acc |-> IF a = 1 THEN accountData(st) ELSE NoRow]
  /\ transport = [a \in Acc |-> IF a = 1 THEN "up" ELSE None]
  /\ pupPage = [a \in Acc |-> IF a = 1 THEN "open" ELSE Absent]
  /\ handlers = {} /\ deletes = {} /\ ingests = {} /\ sends = {}
  /\ requests = {}
  /\ creates = {[acc |-> 1, pc |-> "done", result |-> "ok"]}
  /\ startup = [NoStartup EXCEPT !.pc = "done"]
  /\ lifecycle = [a \in Acc |-> Off]
  /\ nextId = 1
  /\ webhooks = [w \in WebhookIds |-> NoWebhook]
  /\ message_logs = <<>>
  /\ budget = [NoBudget EXCEPT !.events = MaxSendEvents, !.sends = MaxSends,
                                !.deletes = MaxDeletes, !.pages = MaxPageCloses]

NextSend ==
  \/ sendMessage
  \/ transportEvent
  \/ lifecycleHandler
  \/ deleteAccount
  \/ \E a \in Acc : pageCloses(a)

SpecSend == InitSend /\ [][NextSend]_vars

\* Phone numbers: account 1 is connected and ready; sendMessage is called with
\* every `number` string of PhoneInputs and formats it (line 277).
InitFormat ==
  /\ RunningManager({1})
  /\ webhooks = [w \in WebhookIds |-> NoWebhook]
  /\ message_logs = <<>>
  /\ budget = [NoBudget EXCEPT !.sends = MaxFormatCalls]

NextFormat ==
  \/ \E a \in clients, number \in PhoneInputs, message \in Bodies :
       sendMessage_call(a, number, message) /\ UNCHANGED requests
  \/ \E t \in sends :
       \/ sendMessage_sent(t)
       \/ sendMessage_sendFails(t)
       \/ sendMessage_successLogged(t)
       \/ sendMessage_successLogFails(t)
       \/ sendMessage_failureLogged(t)
       \/ sendMessage_failureLogFails(t)

SpecFormat == InitFormat /\ [][NextFormat]_vars

\* Deletions: account 1 is connected and ready, account 2 does not exist;
\* deleteAccount is called, again and for either account, while the client of
\* account 1 emits a lifecycle event.
InitDelete ==
  /\ RunningManager({1})
  /\ webhooks = [w \in WebhookIds |-> NoWebhook]
  /\ message_logs = <<>>
  /\ budget = [NoBudget EXCEPT !.deletes = MaxDeleteCalls, !.events = MaxSendEvents]

NextDelete ==
  \/ deleteAccount
  \/ transportEvent
  \/ lifecycleHandler

SpecDelete == InitDelete /\ [][NextDelete]_vars

\* What one run of the routes may do: MaxRouteCalls operations, each of another
\* kind.
RouteBudgets ==
  {b \in [DOMAIN NoBudget -> 0..1] :
     /\ b.pages = 0
     /\ b.creates + b.sends + b.requests + b.hooks + b.toggles + b.deletes
          + b.messages + b.events = MaxRouteCalls}

\* The routes: account 1 is connected and ready and has an active webhook,
\* account 2 does not exist.  Requests, valid or with a field missing, reach
\* the routes while a message arrives, the client emits an event and the
\* account is deleted.
InitRoutes ==
  /\ RunningManager({1})
  /\ webhooks = [w \in WebhookIds |->
                   IF w = 1 THEN [account |-> 1, is_active |-> TRUE, secret |-> None]
                   ELSE NoWebhook]
  /\ message_logs = <<>>
  /\ budget \in RouteBudgets

NextRoutes ==
  \/ \E name \in Names : postAccounts(name)
  \/ \E account_id \in AccountIds, number \in SendNumbers, message \in SendBodies :
       postSend(account_id, number, message)
  \/ \E w \in WebhookIds, account_id \in AccountIds, url \in Urls, is_active \in BOOLEAN :
       postWebhooks(w, account_id, url, is_active)
  \/ \E w \in WebhookIds : deleteWebhook(w)
  \/ webhookRoutes
  \/ \E c \in creates :
       \/ createAccount_insert(c)
       \/ createAccount_insertFails(c)
       \/ createAccount_register(c)
       \/ createAccount_initialized(c)
       \/ createAccount_initializeFails(c)
  \/ \E t \in sends :
       \/ sendMessage_sent(t)
       \/ sendMessage_sendFails(t)
       \/ sendMessage_successLogged(t)
       \/ sendMessage_successLogFails(t)
       \/ sendMessage_failureLogged(t)
       \/ sendMessage_failureLogFails(t)
  \/ deleteAccount
  \/ messageEvent
  \/ handleIncomingMessage
  \/ sendToWebhooks
  \/ transportEvent
  \/ lifecycleHandler

SpecRoutes == InitRoutes /\ [][NextRoutes]_vars

\* Rows of table webhooks as POST /api/webhooks leaves them: with a secret,
\* or with the empty string for none (index.js 147).
ReplyWebhooks ==
  {NoWebhook} \cup
  {[account |-> a, is_active |-> b, secret |-> x] :
     a \in Acc, b \in BOOLEAN, x \in Secrets \cup {""}}

\* Replies: account 1 is connected and ready; the accounts have webhooks, some
\* active, some with a secret.  Requests reach /api/webhook-reply, the sends
\* they start run, and webhooks are toggled meanwhile.
InitReply ==
  /\ RunningManager({1})
  /\ webhooks \in [WebhookIds -> ReplyWebhooks]
  /\ message_logs = <<>>
  /\ budget = [NoBudget EXCEPT !.requests = MaxReplies, !.sends = MaxReplies,
                                !.toggles = MaxToggles]

NextReply ==
  \/ webhookReply
  \/ \E t \in sends :
       \/ sendMessage_sent(t)
       \/ sendMessage_sendFails(t)
       \/ sendMessage_successLogged(t)
       \/ sendMessage_successLogFails(t)
       \/ sendMessage_failureLogged(t)
       \/ sendMessage_failureLogFails(t)
  \/ webhookRoutes

SpecReply == InitReply /\ [][NextReply]_vars

----------------------------------------------------------------------------
(* The claims.                                                             *)

LogIndexes == 1..Len(message_logs)

\* The rows of message_logs a task wrote, by direction, status and webhook.
EntriesOf(id, direction, statuses, w) ==
  {k \in LogIndexes : /\ message_logs[k].task = id
                      /\ message_logs[k].direction = direction
                      /\ message_logs[k].status \in statuses
                      /\ message_logs[k].webhook_id = w}

\* C1: sendMessage called while a client is registered and the cached status is
\* not 'ready' never calls the transport, logs no outgoing success entry, and
\* ends with the not-ready error.
C1_NotReadyRejected ==
  \A t \in sends :
    (t.hadClient /\ t.status # "ready") =>
      /\ ~t.invoked
      /\ EntriesOf(t.id, "outgoing", {"success"}, 0) = {}
      /\ t.pc = "done" => t.result = "NotReady"

\* C4: every cached status and every persisted status is one of the five
\* documented values.
C4_StatusEnumerated ==
  \A a \in Acc :
    /\ accountStatus[a] # None => accountStatus[a] \in Statuses
    /\ HasRow(a) => whatsapp_accounts[a].status \in Statuses

C4_Witness ==
  \E a \in Acc : accountStatus[a] = "auth_failed" /\ whatsapp_accounts[a].status = "auth_failed"

\* The transition table of spec 4.2: may the status go from old to new?
InTable(old, new) ==
  /\ new = "qr_ready" => old = "initializing"
  /\ new = "ready" => old \in {"initializing", "qr_ready"}

\* C5: every change of an account's cached or persisted status follows the
\* transition table: QR_READY only from INITIALIZING, READY only from
\* INITIALIZING or QR_READY (so never from AUTH_FAILED or DISCONNECTED).
C5_TransitionTable ==
  [][\A a \in Acc :
       /\ accountStatus'[a] # accountStatus[a] => InTable(accountStatus[a], accountStatus'[a])
       /\ whatsapp_accounts'[a].status # whatsapp_accounts[a].status =>
            InTable(whatsapp_accounts[a].status, whatsapp_accounts'[a].status)]_vars

\* C6: in the scenario create, qr(code), ready: after createAccount registered
\* the client the status is INITIALIZING; after the qr handler ended it is
\* QR_READY, persisted and cached, and the rendering of the code is cached;
\* after the ready handler ended it is READY, the phone identity is persisted
\* and the cached QR code is gone.
C6_LifecycleSequence ==
  \A a \in Acc :
    LET row == whatsapp_accounts[a]
        at == lifecycle[a]
    IN  /\ at.ph = "created" =>
             /\ accountStatus[a] = "initializing"
             /\ row.status = "initializing"
        /\ at.ph = "qr_done" =>
             /\ accountStatus[a] = "qr_ready"
             /\ row.status = "qr_ready"
             /\ qrCodes[a] = toDataURL(at.code)
        /\ at.ph = "ready_done" =>
             /\ accountStatus[a] = "ready"
             /\ row.status = "ready"
             /\ row.phone_number = at.phone
             /\ qrCodes[a] = NoQr

C6_Witness == \E a \in Acc : lifecycle[a].ph = "ready_done"

\* The accounts of the fetched list whose persisted status is ready or qr_ready.
ReadyOrQrReady ==
  {startup.rows[j].id : j \in {k \in 1..Len(startup.rows) :
                                 startup.rows[k].status \in {"ready", "qr_ready"}}}

\* C7: initializeExistingAccounts calls reconnectAccount for exactly the
\* persisted accounts whose status is ready or qr_ready: never for another
\* account, and, once it has ended, for every one of them.
C7_ReattachesExactly ==
  /\ startup.attempted \subseteq ReadyOrQrReady
  /\ startup.pc = "done" => startup.attempted = ReadyOrQrReady

\* C8: when the re-attachment of an account failed and reconnectAccount has dealt
\* with it (line 438 ran), the account is DISCONNECTED, persisted and cached,
\* and the persisted error message is the failure reason.
C8_ReattachFailureRecorded ==
  \A a \in startup.marked :
    (\A h \in handlers : h.acc # a) =>
      /\ whatsapp_accounts[a].status = "disconnected"
      /\ accountStatus[a] = "disconnected"
      /\ whatsapp_accounts[a].error_message = startup.failure[a]

\* A task of account a stands right after its successful store write of status s.
JustPersisted(a, s) ==
  \/ \E h \in handlers : h.acc = a /\ h.pc = "cache" /\ handlerStatus(h.kind) = s
  \/ \E c \in creates : c.acc = a /\ c.pc = "inserted" /\ s = "initializing"
  \/ startup.pc = "cache" /\ Current = a /\ s = "disconnected"

\* C9: a step changes an account's cached status to s only when the task taking
\* it has just persisted status s for the account (persist before cache).
C9_PersistBeforeCache ==
  [][\A a \in Acc :
       (accountStatus'[a] # accountStatus[a] /\ accountStatus'[a] # None) =>
         JustPersisted(a, accountStatus'[a])]_vars

\* The webhooks of the list a dispatch fetched, by is_active.
Fetched(t, active) ==
  {t.list[j].id : j \in {k \in 1..Len(t.list) : t.list[k].is_active = active}}

WebhookEntries(t, w) == EntriesOf(t.id, "webhook", {"success", "failed"}, w)

C3_FailureIsolation ==
  \A t \in ingests :
    (t.fetched /\ t.pc = "done") =>
      \A failed \in t.posted \ t.delivered :
        \A w \in Fetched(t, TRUE) \ {failed} :
          /\ w \in t.posted
          /\ w \in t.delivered =>
               /\ Cardinality(EntriesOf(t.id, "webhook", {"success"}, w)) = 1
               /\ EntriesOf(t.id, "webhook", {"failed"}, w) = {}

\* C10: the 'message' handler of an inbound message can always take its next
\* step up to and including the insertion of its incoming entry, whatever the
\* handlers of earlier messages are doing: it never waits for their dispatch.
C10_IngestionNeverWaits ==
  \A t \in ingests :
    /\ t.pc = "getChat" => ENABLED ingest_gotChat(t)
    /\ t.pc = "media" => ENABLED ingest_gotMedia(t)
    /\ t.pc = "log" => ENABLED ingest_logged(t)

\* The incoming entry of a later message is in the log while a POST of an
\* earlier message of the same account is still pending.
C10_Witness ==
  \E m1, m2 \in ingests :
    /\ m1.id < m2.id /\ m1.acc = m2.acc
    /\ m1.pc = "post"
    /\ EntriesOf(m2.id, "incoming", {None}, 0) # {}

\* C11: the deliveries of one message progress independently: while the POST to
\* one webhook of the fetched list is pending, the delivery to every other
\* active webhook of the list has been started too (none waits for it), so its
\* outcome can be recorded before the pending POST ends.
C11_FanOutIndependent ==
  \A t \in ingests :
    t.pc = "post" => \A w \in Fetched(t, TRUE) : w \in t.posted

\* The store applies, in this step, the db.updateAccount of handler h.
PersistsNow(h) == h.pc = "persist" /\ [h EXCEPT !.pc = "cache"] \in handlers'

\* Handler h caches its status in this step (and ends).
CachesNow(h) == h.pc = "cache" /\ h \notin handlers'

\* C12: of two lifecycle events of one account, the update of the one emitted
\* first is persisted before, and cached before, that of the one emitted
\* later: no step persists (caches) the later event's status while the
\* earlier event's handler has still to persist (cache) its own.
C12_ArrivalOrder ==
  [][\A e1, e2 \in handlers :
       (e1.acc = e2.acc /\ e1.id < e2.id) =>
         /\ ~(PersistsNow(e2) /\ e1.pc \in {"render", "persist"})
         /\ ~(CachesNow(e2))]_vars

\* C13: a sendMessage call on a registered client whose cached status is
\* 'ready' ends, when the transport accepted the message, with exactly one
\* outgoing success entry, no failed entry and the result returned; and
\* otherwise with exactly one outgoing failed entry carrying the error, no
\* success entry, and that error thrown to the caller.
C13_SendOutcomeRecorded ==
  \A t \in sends :
    (t.hadClient /\ t.status = "ready" /\ t.pc = "done") =>
      LET success == EntriesOf(t.id, "outgoing", {"success"}, 0)
          failed == EntriesOf(t.id, "outgoing", {"failed"}, 0)
      IN  IF t.accepted
          THEN Cardinality(success) = 1 /\ failed = {} /\ t.result = "ok"
          ELSE /\ Cardinality(failed) = 1 /\ success = {}
               /\ \A k \in failed : message_logs[k].error_message = t.error
               /\ t.result = t.error

\* C14: sendMessage for an account without a registered client writes no log
\* entry at all and fails with the client-not-found error.
C14_NoSessionNoLog ==
  \A t \in sends :
    ~t.hadClient =>
      /\ \A k \in LogIndexes : message_logs[k].task # t.id
      /\ t.pc = "done" => t.result = "ClientNotFound"

\* C15: formatting the address formatPhoneNumber returned gives that address
\* again, for every number a send formatted.
C15_FormatIdempotent ==
  \A t \in sends :
    t.invoked =>
      /\ t.to = formatPhoneNumber(t.number)
      /\ formatPhoneNumber(t.to) = t.to

\* A number with an interior '+', a stripped character and no '+' prefix was
\* formatted, and formatting the result again changes nothing.
C15_Witness ==
  \E t \in sends :
    /\ t.invoked /\ t.number = <<"9", "-", "+">>
    /\ t.to = <<"+", "9", "1", "9", "+", "@", "c", ".", "u", "s">>
    /\ formatPhoneNumber(t.to) = t.to

IsDigit(ch) == ch \in Digits

\* C16: the address formatPhoneNumber returns is '+', then digits only, then
\* '@c.us'; the digits are those of the input, in order, after the country
\* code 91 exactly when the cleaned input does not start with '+'.
C16_FormatShape ==
  \A t \in sends :
    t.invoked =>
      LET out == t.to
          cleaned == SelectSeq(t.number, IsDigitOrPlus)
          plus == Len(cleaned) > 0 /\ cleaned[1] = "+"
          core == SubSeq(out, 2, Len(out) - 5)
      IN  /\ Len(out) >= 6
          /\ out[1] = "+"
          /\ SubSeq(out, Len(out) - 4, Len(out)) = <<"@", "c", ".", "u", "s">>
          /\ \A i \in 1..Len(core) : core[i] \in Digits
          /\ core = (IF plus THEN <<>> ELSE <<"9", "1">>) \o SelectSeq(t.number, IsDigit)

\* What a deleteAccount call can touch: the manager's maps, the client, the store.
DeleteFootprint == <<clients, qrCodes, accountStatus, transport, pupPage,
                     whatsapp_accounts, webhooks, message_logs>>

C18_DeletedStaysCleared ==
  \A d \in deletes :
    (d.pc = "done" /\ d.result = "ok") =>
      /\ d.acc \notin clients
      /\ transport[d.acc] \in {None, "destroyed"}
      /\ qrCodes[d.acc] = NoQr
      /\ accountStatus[d.acc] = None

\* The webhooks whose POST failed (the one being POSTed to not counted).
FailedDeliveries(t) ==
  (t.posted \ t.delivered) \ (IF t.pc = "post" THEN {t.list[t.i].id} ELSE {})

\* A delivery failure leaves handleIncomingMessage and the incoming entry alone:
\* the handler does not throw, no failed incoming entry is written, and the
\* incoming entry of the message is there, once, with the message body.
DeliveryFailureContained(t) ==
  /\ t.result # "threw"
  /\ EntriesOf(t.id, "incoming", {"failed"}, 0) = {}
  /\ Cardinality(EntriesOf(t.id, "incoming", {None}, 0)) = 1
  /\ \A k \in EntriesOf(t.id, "incoming", {None}, 0) : message_logs[k].message = t.body

IngestFailed(t) ==
  \/ t.pc = "logError"
  \/ t.pc = "done" /\ ~t.fetched /\ ~t.rejected

\* C20: when normalizing or persisting an inbound message failed, the handler
\* can log, and if the store accepts has logged, one failed incoming entry with
\* the error, and it neither fetches the webhooks nor POSTs; a POST is made only
\* for a message whose incoming entry is in the log; and the account's client
\* stays registered and running.
C20_IngestFailureLogged ==
  \A t \in ingests :
    LET failed == EntriesOf(t.id, "incoming", {"failed"}, 0)
        logged == EntriesOf(t.id, "incoming", {None}, 0)
    IN  /\ IngestFailed(t) =>
             /\ t.posted = {} /\ t.list = <<>> /\ logged = {}
             /\ \A w \in WebhookIds : WebhookEntries(t, w) = {}
             /\ t.pc = "logError" => failed = {} /\ ENABLED ingest_errorLogged(t)
             /\ (t.pc = "done" /\ t.result = "ok") =>
                  /\ Cardinality(failed) = 1
                  /\ \A k \in failed : message_logs[k].error_message = t.error
             /\ t.acc \in clients /\ Emitting(t.acc)
        /\ ~IngestFailed(t) => failed = {}
        /\ t.posted # {} => Cardinality(logged) = 1

\* The insert of a message's incoming entry was rejected; the failed entry with
\* the store's error is in the log and nothing was dispatched.
C20_Witness ==
  \E t \in ingests :
    /\ t.pc = "done" /\ t.result = "ok" /\ t.error = "StoreError" /\ IngestFailed(t)
    /\ \E k \in EntriesOf(t.id, "incoming", {"failed"}, 0) :
         message_logs[k].error_message = "StoreError"
    /\ t.posted = {}
    /\ \E w \in WebhookIds : webhooks[w].account = t.acc /\ webhooks[w].is_active

\* C21: when client.initialize() rejected in createAccount, the call ends with
\* that error thrown and the account's persisted status is auth_failed or
\* disconnected.
C21_CreateFailureRecorded ==
  \A c \in creates :
    (c.pc = "done" /\ c.result = "TransportError") =>
      whatsapp_accounts[c.acc].status \in {"auth_failed", "disconnected"}

\* The value column `status` of message_logs takes in a row inserted without
\* one (the table's definition is not among the sources; spec section 3:
\* a MessageLogEntry has a status, success or failed).
statusDefault == "success"

\* The status the store holds for row k of message_logs.
StatusOf(k) ==
  IF message_logs[k].status = None THEN statusDefault ELSE message_logs[k].status

\* The rows a 'message' handler wrote.
TaskEntries(t) == {k \in LogIndexes : message_logs[k].task = t.id}

\* The insert of t's incoming entry succeeded.
Ingested(t) == t.pc \notin {"getChat", "media", "log", "logError"} /\ ~IngestFailed(t)

C23_LogAppendOnly ==
  [][ /\ Len(message_logs') >= Len(message_logs)
      /\ \A k \in LogIndexes : message_logs'[k] = message_logs[k] ]_vars

\* An account was deleted from the store and the log still holds its entries.
C23_Witness ==
  /\ \E d \in deletes : d.acc = 1 /\ d.pc = "done" /\ d.result = "ok"
  /\ ~HasRow(1)
  /\ \E k \in LogIndexes : message_logs[k].account_id = 1

\* C24: a POST /api/send without account_id, number or message, and a
\* POST /api/accounts without name, is answered before anything changes:
\* sendMessage / createAccount is not called (no call is added), no log entry
\* is written, and no account row, client, cached status or QR code changes.
C24_InvalidRequestRejected ==
  [][ ( \/ postAccounts("")
        \/ \E account_id \in AccountIds, number \in SendNumbers, message \in SendBodies :
             /\ account_id = 0 \/ number = <<>> \/ message = ""
             /\ postSend(account_id, number, message) )
      => /\ UNCHANGED <<creates, sends, message_logs, whatsapp_accounts, webhooks>>
         /\ UNCHANGED <<managerVars, clientVars, handlers, deletes, ingests, startup>>
         /\ requests' # requests ]_vars

\* A send request without a number was answered with 400.
C24_Witness ==
  \E r \in requests :
    /\ r.route = "POST /api/send" /\ r.body[1] = 1 /\ r.body[2] = <<>>
    /\ sends = {} /\ message_logs = <<>>

\* C25: the transport's authenticated event leaves the account's persisted
\* status, cached status, cached QR code and the message log unchanged.
C25_AuthenticatedChangesNothing ==
  [][ (\E a \in Acc : emit_authenticated(a))
      => UNCHANGED <<whatsapp_accounts, accountStatus, qrCodes, message_logs>> ]_vars

\* An authenticated event was emitted (it spends an event and starts no
\* handler) for an account that shows a QR code.
C25_Witness ==
  /\ budget.events = MaxEvents - 2 /\ nextId = 2 /\ deletes = {} /\ handlers = {}
  /\ \E a \in clients :
       /\ accountStatus[a] = "qr_ready" /\ qrCodes[a] # NoQr
       /\ whatsapp_accounts[a].status = "qr_ready"

\* A step taken for account a: its client emits an event or a message, one of
\* its handlers continues, sendMessage or deleteAccount is called for it or
\* such a call continues.
StepOf(a) ==
  \/ \E kind \in {"qr", "ready", "auth_failure", "disconnected"} :
       \E arg \in EventArgs(kind) : emit(a, kind, arg)
  \/ emit_authenticated(a)
  \/ \E h \in handlers :
       /\ h.acc = a
       /\ \/ qr_rendered(h) \/ qr_renderFails(h) \/ handler_persisted(h)
          \/ handler_persistFails(h) \/ handler_cached(h)
  \/ \E body \in Bodies, hasMedia \in BOOLEAN : emit_message(a, body, hasMedia)
  \/ \E t \in ingests :
       /\ t.acc = a
       /\ \/ ingest_gotChat(t) \/ ingest_gotMedia(t) \/ ingest_logged(t)
          \/ \E error \in {"ChatError", "MediaError", "StoreError"} : ingest_fails(t, error)
          \/ ingest_errorLogged(t) \/ ingest_errorLogFails(t)
          \/ dispatch_fetched(t) \/ dispatch_fetchFails(t) \/ dispatch_postOk(t)
          \/ \E error \in PostErrors : dispatch_postFails(t, error)
          \/ dispatch_successLogged(t) \/ dispatch_successLogFails(t)
          \/ dispatch_failureLogged(t) \/ dispatch_failureLogFails(t)
  \/ \E number \in Numbers, message \in Bodies : sendMessage_call(a, number, message)
  \/ \E t \in sends :
       /\ t.acc = a
       /\ \/ sendMessage_sent(t) \/ sendMessage_sendFails(t)
          \/ sendMessage_successLogged(t) \/ sendMessage_successLogFails(t)
          \/ sendMessage_failureLogged(t) \/ sendMessage_failureLogFails(t)
  \/ deleteAccount_callDestroy(a) \/ deleteAccount_callNoClient(a)
  \/ \E d \in deletes :
       /\ d.acc = a
       /\ \/ deleteAccount_destroyed(d) \/ deleteAccount_destroyFails(d)
          \/ deleteAccount_deleted(d) \/ deleteAccount_deleteFails(d)

\* The log entries of an account, in order.
LogOf(log, b) == SelectSeq(log, LAMBDA e : e.account_id = b)

\* C26: a step taken for account A (an event of its transport, an inbound
\* message, a send or a delete, or a continuation of one) leaves the client,
\* cached status, cached QR code, persisted row, webhooks and log entries of
\* every other account B as they were.
C26_CrossAccountIndependence ==
  [][ \A A \in Acc : StepOf(A) =>
        \A B \in Acc \ {A} :
          /\ (B \in clients') = (B \in clients)
          /\ transport'[B] = transport[B] /\ pupPage'[B] = pupPage[B]
          /\ accountStatus'[B] = accountStatus[B]
          /\ qrCodes'[B] = qrCodes[B]
          /\ whatsapp_accounts'[B] = whatsapp_accounts[B]
          /\ \A w \in WebhookIds :
               (webhooks[w].account = B \/ webhooks'[w].account = B)
                 => webhooks'[w] = webhooks[w]
          /\ LogOf(message_logs', B) = LogOf(message_logs, B) ]_vars

\* A handler of account 2 has written to that account's row while account 1
\* is connected, has a webhook and its own row.
C26_Witness ==
  /\ HasRow(1) /\ HasRow(2) /\ 1 \in clients /\ 2 \in clients
  /\ whatsapp_accounts[2].status \in {"qr_ready", "ready", "auth_failed", "disconnected"}
  /\ whatsapp_accounts[1].status = "ready" /\ accountStatus[1] = "ready"
  /\ \E w \in WebhookIds : webhooks[w].account = 1

\* C27: startup re-attachment progresses independently: every account that
\* db.getAccounts returned with status ready or qr_ready eventually has its
\* re-attachment started, whatever becomes of the re-attachment of another
\* account.
C27_EveryEligibleStarted ==
  \A a \in Acc : (a \in ReadyOrQrReady) ~> (a \in startup.attempted)

\* C28: every webhook entry of the log belongs to a webhook of the entry's
\* account that was active in the list its dispatch fetched, and its status is
\* success exactly when the POST to that webhook was answered and failed
\* exactly when the POST failed.
C28_OutcomeFidelity ==
  \A k \in LogIndexes :
    message_logs[k].direction = "webhook" =>
      \E t \in ingests :
        /\ t.id = message_logs[k].task
        /\ message_logs[k].account_id = t.acc
        /\ message_logs[k].webhook_id \in Fetched(t, TRUE)
        /\ (message_logs[k].status = "success") = (message_logs[k].webhook_id \in t.delivered)
        /\ (message_logs[k].status = "failed") = (message_logs[k].webhook_id \notin t.delivered)

\* C29: readiness for sending is decided by the status alone: a sendMessage
\* call that finds a client and the cached status 'ready' invokes the
\* transport's sendMessage, and a call fails only with session-not-found,
\* session-not-ready or the error of the transport's send.
C29_ReadinessByStatus ==
  \A t \in sends :
    /\ (t.hadClient /\ t.status = "ready") => t.invoked
    /\ ~t.invoked => t.error \in {"ClientNotFound", "NotReady"}
    /\ t.pc = "done" => t.result \in {"ok", "ClientNotFound", "NotReady", "TransportError"}

\* C30: in every reachable state, whatever the interleaving of an account's
\* qr and ready handlers, an account whose cached status is 'ready' has no
\* cached QR code.
C30_ReadyHasNoQr ==
  \A a \in Acc : accountStatus[a] = "ready" => qrCodes[a] = NoQr

\* An event handler or a manager operation is in flight for account a.
InFlight(a) ==
  \/ \E h \in handlers : h.acc = a
  \/ \E c \in creates : c.acc = a /\ c.pc # "done"
  \/ \E d \in deletes : d.acc = a /\ d.pc # "done"
  \/ \E t \in ingests : t.acc = a /\ t.pc # "done"
  \/ \E t \in sends : t.acc = a /\ t.pc # "done"
  \/ startup.pc \notin {"idle", "done"}

\* C31: whenever nothing is in flight for an account that has a row and a
\* registered client whose transport is up, the status cached in accountStatus
\* is the status persisted in the account's row.
C31_CacheAgreesAtQuiescence ==
  \A a \in clients :
    (HasRow(a) /\ transport[a] = "up" /\ ~InFlight(a))
      => accountStatus[a] = whatsapp_accounts[a].status

\* C32: no session is leaked by a failed attach: once a createAccount call has
\* ended with the error of client.initialize(), and once reconnectAccount has
\* dealt with a rejected client.initialize(), this.clients holds no client for
\* that account.
C32_NoLeakedSession ==
  /\ \A c \in creates :
       (c.pc = "done" /\ c.result = "TransportError") => c.acc \notin clients
  /\ \A a \in Acc :
       (startup.failure[a] # None /\ (a \in startup.marked \/ startup.pc = "done"))
         => a \notin clients

\* The requests that reached /api/webhook-reply.
Replies == {r \in requests : r.route = "POST /api/webhook-reply"}

\* C33: a request to /api/webhook-reply reaches sendMessage only if, in the
\* table as it was at the check, the named account has an active webhook whose
\* secret is the supplied, non-empty, webhook_secret; every other request is
\* rejected: no sendMessage call is made for it and no log entry is written
\* (every sendMessage call and every log entry is that of a request that
\* passed the check).
C33_ReplyNeedsActiveSecret ==
  /\ \A r \in Replies :
       r.send # 0 =>
         \E w \in WebhookIds :
           /\ r.body[4] # ""
           /\ r.seen[w].account = r.body[1]
           /\ r.seen[w].is_active
           /\ r.seen[w].secret = r.body[4]
  /\ \A t \in sends : \E r \in Replies : r.send = t.id /\ r.body[1] = t.acc
  /\ \A k \in LogIndexes : \E r \in Replies : r.send = message_logs[k].task

\* A request with the secret of an active webhook of account 1 was sent, and
\* its outgoing entry logged.
C33_Witness ==
  \E r \in Replies :
    /\ r.send # 0 /\ r.body[1] = 1 /\ r.body[4] = "s3cret"
    /\ \E k \in LogIndexes : message_logs[k].task = r.send /\ message_logs[k].status = "success"

====
